---------------------------- MODULE Spec2Model ----------------------------
(***************************************************************************)
(* Model of the AI-news pipeline (scripts/fetch_news.js, filtered variant) *)
(* and of the offline cache layer (service worker, versions v1 and v2).    *)
(*                                                                         *)
(* Strings are sequences of one-character strings, so that trim,           *)
(* toLowerCase, slice, endsWith and regular-expression matching are        *)
(* computed as the code computes them.                                     *)
(***************************************************************************)
EXTENDS Integers, Sequences, FiniteSets, TLC

(***************************************************************************)
(* Bounds of the model.                                                    *)
(***************************************************************************)
MaxTermLen == 4
MaxTextLen == 5

(***************************************************************************)
(* A field that is missing (undefined or null): a one-element sequence     *)
(* whose element is no character, so that it compares with strings.        *)
(***************************************************************************)
Null == <<"null">>

(***************************************************************************)
(* Characters.                                                             *)
(***************************************************************************)
UpperChars == <<"A","B","C","D","E","F","G","H","I","J","K","L","M",
                "N","O","P","Q","R","S","T","U","V","W","X","Y","Z">>
LowerChars == <<"a","b","c","d","e","f","g","h","i","j","k","l","m",
                "n","o","p","q","r","s","t","u","v","w","x","y","z">>
DigitChars == {"0","1","2","3","4","5","6","7","8","9"}

Range(s) == {s[i] : i \in DOMAIN s}

\* [a-z0-9] under the i flag
IsAlnum(c) == c \in Range(UpperChars) \cup Range(LowerChars) \cup DigitChars

\* \w of a JavaScript regular expression
IsWordChar(c) == IsAlnum(c) \/ c = "_"

\* \s of a JavaScript regular expression, and what String.prototype.trim strips
IsSpace(c) == c \in {" ", "\n", "\t"}

toLowerCaseChar(c) ==
    IF c \in Range(UpperChars)
    THEN LowerChars[CHOOSE i \in DOMAIN UpperChars : UpperChars[i] = c]
    ELSE c

\* String.prototype.toLowerCase
toLowerCase(s) == [i \in DOMAIN s |-> toLowerCaseChar(s[i])]

\* String.prototype.trim
trim(s) ==
    LET keep == {i \in DOMAIN s : ~IsSpace(s[i])}
    IN  IF keep = {} THEN <<>>
        ELSE LET lo == CHOOSE i \in keep : \A j \in keep : i <= j
                 hi == CHOOSE i \in keep : \A j \in keep : j <= i
             IN  SubSeq(s, lo, hi)

\* String.prototype.endsWith
endsWith(s, suffix) ==
    /\ Len(suffix) <= Len(s)
    /\ SubSeq(s, Len(s) - Len(suffix) + 1, Len(s)) = suffix

\* String.prototype.slice(0, n) for n >= 0
slice0(s, n) == IF Len(s) <= n THEN s ELSE SubSeq(s, 1, n)

(***************************************************************************)
(* Compiled term patterns (buildTermPattern).  A pattern is a record       *)
(*   toks  : the regular expression's atoms, each a literal character      *)
(*           (escapeRegExp makes every special character literal) or the   *)
(*           atom WS, standing for \s+;                                    *)
(*   bound : TRUE when the source is wrapped in \b ... \b.                 *)
(* Every pattern carries the i flag.                                       *)
(***************************************************************************)
WS == "\\s+"

\* escapeRegExp(term.trim().toLowerCase()).replace(/\s+/g, '\\s+'):
\* each maximal run of whitespace becomes one \s+ atom, every other
\* character an atom matching itself.
RECURSIVE Atoms(_)
Atoms(s) ==
    IF s = <<>> THEN <<>>
    ELSE IF IsSpace(Head(s))
         THEN IF Len(s) > 1 /\ IsSpace(s[2])
              THEN Atoms(Tail(s))
              ELSE <<WS>> \o Atoms(Tail(s))
         ELSE <<Head(s)>> \o Atoms(Tail(s))

\* /^[a-z0-9]{1,3}$/i.test(term.trim())
ShortWordMax == 3
isShortWord(term) ==
    LET t == trim(term)
    IN  /\ Len(t) >= 1
        /\ Len(t) <= ShortWordMax
        /\ \A i \in DOMAIN t : IsAlnum(t[i])

\* buildTermPattern without the short-word test: never wrapped in \b
buildTermPatternUnbounded(term) ==
    [toks  |-> Atoms(toLowerCase(trim(term))),
     bound |-> FALSE]

buildTermPattern(term) ==
    [toks  |-> Atoms(toLowerCase(trim(term))),
     bound |-> isShortWord(term)]

\* The positions p (1 .. Len(text)+1) at which the atoms toks[k..] can stop
\* when they start matching text at position pos.
RECURSIVE MatchEnds(_, _, _, _)
MatchEnds(toks, k, text, pos) ==
    IF k > Len(toks) THEN {pos}
    ELSE IF pos > Len(text) THEN {}
    ELSE IF toks[k] = WS
         THEN IF IsSpace(text[pos])
              THEN MatchEnds(toks, k + 1, text, pos + 1)
                   \cup MatchEnds(toks, k, text, pos + 1)
              ELSE {}
         ELSE IF toLowerCaseChar(text[pos]) = toLowerCaseChar(toks[k])
              THEN MatchEnds(toks, k + 1, text, pos + 1)
              ELSE {}

\* \b at position p: between text[p-1] and text[p], the text's ends counting
\* as non-word characters.
WordBoundary(text, p) ==
    LET before == p > 1 /\ IsWordChar(text[p - 1])
        after  == p <= Len(text) /\ IsWordChar(text[p])
    IN  before # after

\* RegExp.prototype.test
PatternTest(pattern, text) ==
    \E start \in 1..(Len(text) + 1) :
        /\ pattern.bound => WordBoundary(text, start)
        /\ \E stop \in MatchEnds(pattern.toks, 1, text, start) :
               pattern.bound => WordBoundary(text, stop)

(***************************************************************************)
(* The matcher on its own: a term is compiled and tested against a text.   *)
(***************************************************************************)
VARIABLES mTerm, mText, mTested, mResult

matcherVars == <<mTerm, mText, mTested, mResult>>

MatcherAlphabet == {"a", "A", " ", "+"}
TextAlphabet == {"a", " ", "+"}

StringsOver(alphabet, n) == UNION {[1..k -> alphabet] : k \in 0..n}

MatcherInit ==
    /\ mTerm \in StringsOver(MatcherAlphabet, MaxTermLen)
    /\ mText = <<>>
    /\ mTested = FALSE
    /\ mResult = FALSE

\* pattern.test(text) for the pattern compiled from mTerm
TestTerm ==
    /\ ~mTested
    /\ mTested' = TRUE
    /\ \E text \in StringsOver(TextAlphabet, MaxTextLen) :
          /\ mText' = text
          /\ mResult' = PatternTest(buildTermPattern(mTerm), text)
    /\ UNCHANGED mTerm

(***************************************************************************)
(* Filter rules and raw articles.                                          *)
(*                                                                         *)
(* filterRules is the record loadFilterRules returns.  A raw article is a  *)
(* record of the NewsAPI fields; a missing field is Null.  An article's    *)
(* url is a record [kind, host]: kind "missing" is a url that is absent or *)
(* empty, "malformed" one on which new URL(url) throws, and "valid" one    *)
(* that parses, with the host as written, lowercased by the URL parser.    *)
(***************************************************************************)
\* value || ''
OrEmpty(value) == IF value = Null THEN <<>> ELSE value

NewLine == <<"\n">>

\* lines 87-91: `${title}\n${description}\n${content}\n${source}`.toLowerCase()
CombinedText(article) ==
    toLowerCase(OrEmpty(article.title) \o NewLine
                \o OrEmpty(article.description) \o NewLine
                \o OrEmpty(article.content) \o NewLine
                \o OrEmpty(article.source))

extractHost(url) ==
    IF url.kind = "missing" THEN <<>>
    ELSE IF url.kind = "malformed" THEN <<>>
    ELSE toLowerCase(url.host)

isExcludedDomain(url, rules) ==
    LET host == extractHost(url)
    IN  IF host = <<>> THEN FALSE
        ELSE \E k \in DOMAIN rules.exclude_domains :
                LET normalized == trim(toLowerCase(rules.exclude_domains[k]))
                IN  \/ host = normalized
                    \/ endsWith(host, <<".">> \o normalized)

\* matchers.filter(({pattern}) => pattern.test(text)).map(({term}) => term.toLowerCase())
findMatchedTerms(text, terms) ==
    LET Hit(term) == PatternTest(buildTermPattern(term), text)
        hits == SelectSeq(terms, Hit)
    IN  [k \in DOMAIN hits |-> toLowerCase(hits[k])]

\* isAiRelatedArticle with the text built without the source name
isAiRelatedArticleNoSource(article, rules) ==
    LET text == CombinedText([article EXCEPT !.source = Null])
    IN  /\ ~isExcludedDomain(article.url, rules)
        /\ findMatchedTerms(text, rules.allow_keywords) # <<>>
        /\ findMatchedTerms(text, rules.exclude_keywords) = <<>>

\* isAiRelatedArticle with the exclusion overridden unless "ai" is the only
\* allow term that matched
isAiRelatedArticleOverride(article, rules) ==
    LET text == CombinedText(article)
        allowHits == findMatchedTerms(text, rules.allow_keywords)
        excludeHits == findMatchedTerms(text, rules.exclude_keywords)
    IN  IF isExcludedDomain(article.url, rules) THEN FALSE
        ELSE IF allowHits = <<>> THEN FALSE
        ELSE IF excludeHits # <<>>
             THEN ~(\A k \in DOMAIN allowHits : allowHits[k] = <<"a", "i">>)
             ELSE TRUE

\* isAiRelatedArticle without the domain rule
isAiRelatedArticleNoDomain(article, rules) ==
    LET text == CombinedText(article)
    IN  /\ findMatchedTerms(text, rules.allow_keywords) # <<>>
        /\ findMatchedTerms(text, rules.exclude_keywords) = <<>>

isAiRelatedArticle(article, rules) ==
    LET combinedText == CombinedText(article)
        allowHits == findMatchedTerms(combinedText, rules.allow_keywords)
        excludeHits == findMatchedTerms(combinedText, rules.exclude_keywords)
        hasOnlyAiAsAllowTerm ==
            \A k \in DOMAIN allowHits : allowHits[k] = <<"a", "i">>
    IN  IF isExcludedDomain(article.url, rules) THEN FALSE
        ELSE IF allowHits = <<>> THEN FALSE
        ELSE IF excludeHits # <<>>
             THEN IF hasOnlyAiAsAllowTerm THEN FALSE ELSE FALSE
             ELSE TRUE

(***************************************************************************)
(* The classifier on its own: rules are loaded, an article is classified.  *)
(***************************************************************************)
VARIABLES cRules, cArticle, cTested, cResult

classifierVars == <<cRules, cArticle, cTested, cResult>>

\* texts of article fields
FieldTexts ==
    {Null,
     <<"A", "I">>,
     <<"s", "a", "i", "d">>,
     <<"G", "P", "T", "4">>,
     <<"N", "B", "A">>}

\* hosts as written in article urls
UrlHosts ==
    {<<>>,
     <<"x", ".", "i", "o">>,
     <<"A", ".", "x", ".", "i", "o">>,
     <<"a", "x", ".", "i", "o">>,
     <<"x", ".", "i", "o", ".">>}

MissingUrl == [kind |-> "missing", host |-> <<>>]
MalformedUrl == [kind |-> "malformed", host |-> <<>>]

Urls ==
    {MissingUrl, MalformedUrl} \cup {[kind |-> "valid", host |-> h] : h \in UrlHosts}

AllowLists ==
    {<<>>,
     <<<<"a", "i">>>>,
     <<<<"g", "p", "t", "4">>>>,
     <<<<"A", "I">>, <<"g", "p", "t", "4">>>>}

ExcludeKeywordLists ==
    {<<>>, <<<<"n", "b", "a">>>>}

ExcludeDomainLists ==
    {<<>>,
     <<<<"x", ".", "i", "o">>>>,
     <<<<" ", "X", ".", "i", "o">>>>,
     <<<<>>>>,
     <<<<"i", "o">>, <<"b", ".", "i", "o">>>>}

RuleSets ==
    [allow_keywords : AllowLists,
     exclude_domains : ExcludeDomainLists,
     exclude_keywords : ExcludeKeywordLists]

ClassifierArticles ==
    [title : FieldTexts, description : FieldTexts, content : FieldTexts,
     source : FieldTexts, url : Urls]

NoArticle ==
    [title |-> Null, description |-> Null, content |-> Null,
     source |-> Null, url |-> MissingUrl]

ClassifierInit ==
    /\ cRules \in RuleSets
    /\ cArticle = NoArticle
    /\ cTested = FALSE
    /\ cResult = FALSE

\* validArticles.filter(isAiRelatedArticle), for one article
Classify ==
    /\ ~cTested
    /\ cTested' = TRUE
    /\ \E article \in ClassifierArticles :
          /\ cArticle' = article
          /\ cResult' = isAiRelatedArticle(article, cRules)
    /\ UNCHANGED cRules

(***************************************************************************)
(* The summarizer (buildFallbackSummary, summarizeArticle).                *)
(*                                                                         *)
(* A reply of the language model is a record [kind, title_ja, summary_ja]: *)
(*   "error"   generateContent or result.response rejects;                 *)
(*   "notjson" the text, fences stripped, does not parse as JSON;          *)
(*   "null"    it parses to null, so reading json.title_ja throws;         *)
(*   "json"    it parses to an object with the two fields, each possibly   *)
(*             missing or empty (Null).                                    *)
(***************************************************************************)
SummaryMax == 200
SummaryKeep == 197
Ellipsis == <<".", ".", ".">>

\* "記事の要約を取得できませんでした。" (17 characters)
SummaryUnavailable == [i \in 1..17 |-> "*"]

\* a value that || skips: undefined, null or the empty string
Falsy(value) == value = Null \/ value = <<>>

\* buildFallbackSummary cutting nothing
buildFallbackSummaryUncut(article) ==
    IF ~Falsy(article.description) THEN article.description
    ELSE IF ~Falsy(article.title) THEN article.title
    ELSE SummaryUnavailable

buildFallbackSummary(article) ==
    LET base == IF ~Falsy(article.description) THEN article.description
                ELSE IF ~Falsy(article.title) THEN article.title
                ELSE SummaryUnavailable
    IN  IF Len(base) > SummaryMax
        THEN slice0(base, SummaryKeep) \o Ellipsis
        ELSE base

\* What summarizeArticle returns on the reply.  threw says whether the call
\* ended by throwing: every failure of the try block is caught (lines
\* 172-179), so it never does.
summarizeArticle(article, reply) ==
    IF reply.kind = "json"
    THEN [threw      |-> FALSE,
          title_ja   |-> IF ~Falsy(reply.title_ja) THEN reply.title_ja
                         ELSE article.title,
          summary_ja |-> IF ~Falsy(reply.summary_ja) THEN reply.summary_ja
                         ELSE buildFallbackSummary(article)]
    ELSE [threw      |-> FALSE,
          title_ja   |-> article.title,
          summary_ja |-> buildFallbackSummary(article)]

VARIABLES sArticle, sReply, sTested, sResult

summarizerVars == <<sArticle, sReply, sTested, sResult>>

\* how far the lengths of the article fields go below and above SummaryMax
Slack == 3

DescriptionCycle == <<"d", "e", "s", "c", "r", "i", "p">>
TitleCycle == <<"T", "I", "t", "l", "e">>

\* a text of n characters, no two of its slices of 197 characters alike
CycleText(cycle, n) == [i \in 1..n |-> cycle[(i % Len(cycle)) + 1]]

FieldLengths == {1} \cup ((SummaryMax - Slack)..(SummaryMax + Slack))

Descriptions ==
    {Null, <<>>} \cup {CycleText(DescriptionCycle, n) : n \in FieldLengths}

Titles ==
    {Null, <<>>} \cup {CycleText(TitleCycle, n) : n \in FieldLengths}

JaTitle == <<"j", "a">>
JaSummary == <<"y", "o", "y", "a", "k", "u">>

Replies ==
    {[kind |-> k, title_ja |-> Null, summary_ja |-> Null] :
        k \in {"error", "notjson", "null"}}
    \cup [kind : {"json"}, title_ja : {Null, JaTitle},
          summary_ja : {Null, <<>>, JaSummary}]

NoReply == [kind |-> "none", title_ja |-> Null, summary_ja |-> Null]
NoSummary == [threw |-> FALSE, title_ja |-> Null, summary_ja |-> Null]

SummarizerInit ==
    /\ sArticle \in [title : Titles, description : Descriptions]
    /\ sReply = NoReply
    /\ sTested = FALSE
    /\ sResult = NoSummary

SummarizerIdle ==
    /\ sArticle = [title |-> Null, description |-> Null]
    /\ sReply = NoReply
    /\ sTested = FALSE
    /\ sResult = NoSummary

\* await summarizeArticle(article)
Summarize ==
    /\ ~sTested
    /\ sTested' = TRUE
    /\ \E reply \in Replies :
          /\ sReply' = reply
          /\ sResult' = summarizeArticle(sArticle, reply)
    /\ UNCHANGED sArticle

(***************************************************************************)
(* The ingestion pipeline (processNews) and the files it writes.           *)
(*                                                                         *)
(* Time is counted in hours since the epoch (UTC).  A file is a record     *)
(* [kind, data]: kind "absent" (no such file), "json" (the whole of        *)
(* JSON.stringify(outputData)) or "partial" (the file was truncated by a   *)
(* write that then failed).  archives maps each date for which a file      *)
(* public/archives/<date>.json exists to that file.                        *)
(***************************************************************************)
MaxRuns == 2
MaxHours == 2

\* slice(0, 20)
MaxArticles == 20

\* timeZone: 'Asia/Tokyo'
JstOffset == 9
HoursPerDay == 24

\* the clock at the start: 13:00 UTC of day 0, 22:00 in Tokyo
StartHour == 13

\* Intl.DateTimeFormat('ja-JP', {timeZone: 'Asia/Tokyo', ...}).format(new Date())
\* with "/" replaced by "-": the calendar day in Tokyo
JstDate(hour) == (hour + JstOffset) \div HoursPerDay

Removed == <<"[", "R", "e", "m", "o", "v", "e", "d", "]">>

\* publishedAt missing
NoTime == -1

\* new Date(a.publishedAt || 0).getTime()
PublishTime(article) ==
    IF article.publishedAt = NoTime THEN 0 ELSE article.publishedAt

\* one step of the stable sort with the comparator dateB - dateA: article goes
\* behind every article of sorted that is published no earlier
RECURSIVE InsertByDate(_, _)
InsertByDate(sorted, article) ==
    IF sorted = <<>> THEN <<article>>
    ELSE IF PublishTime(Head(sorted)) >= PublishTime(article)
         THEN <<Head(sorted)>> \o InsertByDate(Tail(sorted), article)
         ELSE <<article>> \o sorted

\* filteredArticles.sort((a, b) => dateB - dateA): descending, stable
RECURSIVE SortByDate(_)
SortByDate(seq) ==
    IF seq = <<>> THEN <<>>
    ELSE InsertByDate(SortByDate(SubSeq(seq, 1, Len(seq) - 1)), seq[Len(seq)])

\* the selection without slice(0, 20)
TopArticlesNoCap(articles, rules) ==
    LET NotRemoved(article) == article.title # Removed
        IsRelevant(article) == isAiRelatedArticle(article, rules)
    IN  SortByDate(SelectSeq(SelectSeq(articles, NotRemoved), IsRelevant))

\* lines 189-196: validArticles, filteredArticles, sortedArticles, topArticles
TopArticles(articles, rules) ==
    LET NotRemoved(article) == article.title # Removed
        IsRelevant(article) == isAiRelatedArticle(article, rules)
        validArticles == SelectSeq(articles, NotRemoved)
        filteredArticles == SelectSeq(validArticles, IsRelevant)
        sortedArticles == SortByDate(filteredArticles)
    IN  slice0(sortedArticles, MaxArticles)

\* processNews going on to the loop and the save with nothing selected
AfterSelectNoEmptyCheck(articles, topArticles) ==
    IF Len(articles) = 0 THEN "done"
    ELSE IF Len(topArticles) = 0 THEN "persist"
    ELSE "summarize"

\* where processNews goes once the articles are fetched and selected: it
\* returns when nothing was fetched (line 184) or selected (line 202)
AfterSelect(articles, topArticles) ==
    IF Len(articles) = 0 THEN "done"
    ELSE IF Len(topArticles) = 0 THEN "done"
    ELSE "summarize"

\* lines 211-219
ProcessedArticle(article, summary) ==
    [title        |-> article.title,
     title_ja     |-> summary.title_ja,
     original_url |-> article.url,
     image_url    |-> article.urlToImage,
     published_at |-> article.publishedAt,
     source       |-> article.source,
     summary_ja   |-> summary.summary_ja]

AbsentFile == [kind |-> "absent", data |-> <<>>]
PartialFile == [kind |-> "partial", data |-> <<>>]

\* JSON.stringify(outputData, null, 2) as the content of a file
JsonFile(outputData) == [kind |-> "json", data |-> <<outputData>>]

\* lines 233-236
OutputData(hour, processedArticles) ==
    [updated_at |-> hour, articles |-> processedArticles]

\* the archive directory after a write that adds the data to the day's file
ArchivesAfterAppend(dir, today, outputData) ==
    IF today \in DOMAIN dir /\ dir[today].kind = "json"
    THEN [d \in DOMAIN dir |->
            IF d = today
            THEN JsonFile([outputData EXCEPT
                    !.articles = dir[d].data[1].articles \o @])
            ELSE dir[d]]
    ELSE [d \in DOMAIN dir \cup {today} |->
            IF d = today THEN JsonFile(outputData) ELSE dir[d]]

\* the archive directory after a write that stamps the day's file with the
\* date instead of the instant
ArchivesAfterWriteDated(dir, today, outputData) ==
    [d \in DOMAIN dir \cup {today} |->
        IF d = today THEN JsonFile([outputData EXCEPT !.updated_at = today])
        ELSE dir[d]]

\* the archive directory after a write that clears the directory first
ArchivesAfterWriteAlone(dir, today, outputData) ==
    [d \in {today} |-> JsonFile(outputData)]

\* the archive directory after writeFileSync(`${today}.json`, ...) succeeded
ArchivesAfterWrite(dir, today, outputData) ==
    [d \in DOMAIN dir \cup {today} |->
        IF d = today THEN JsonFile(outputData) ELSE dir[d]]

\* the archive directory after that writeFileSync failed having truncated
\* the file
ArchivesAfterPartialWrite(dir, today) ==
    [d \in DOMAIN dir \cup {today} |->
        IF d = today THEN PartialFile ELSE dir[d]]

VARIABLES
    now,          \* the wall clock, in hours
    latest,       \* the file public/data/latest.json
    archives,     \* the files of public/archives, by date
    pConfig,      \* the file config/filter_rules.json
    pRules,       \* filterRules
    pPc,          \* where processNews stands
    pRun,         \* the number of runs started
    pArticles,    \* articles (line 183)
    pTop,         \* topArticles
    pProcessed,   \* processedArticles
    pIndex,       \* the position of the loop in topArticles
    pCalls,       \* the positions for which the model was called in this run
    pOutstanding, \* the calls of the model not yet settled
    preLatest,    \* latest as the run found it
    preArchives,  \* archives as the run found them
    history       \* the number, date and outputData of each run that saved
                  \* both files

fileVars == <<latest, archives>>
runVars == <<pConfig, pRules, pPc, pRun, pArticles, pTop, pProcessed, pIndex, pCalls,
             pOutstanding, preLatest, preArchives, history>>
pipelineVars == <<now, fileVars, runVars>>

UrlOf(host) == [kind |-> "valid", host |-> host]

ArticleNew ==
    [title |-> <<"A", "I">>, description |-> Null, content |-> Null,
     source |-> <<"w", "i", "r", "e">>, url |-> UrlOf(<<"a", ".", "i", "o">>),
     urlToImage |-> Null, publishedAt |-> 2]

ArticleUndated ==
    [title |-> <<"n", "e", "w", "s">>,
     description |-> <<"l", "o", "n", "g">>,
     content |-> <<"a", "n", " ", "A", "I">>,
     source |-> Null, url |-> MalformedUrl,
     urlToImage |-> Null, publishedAt |-> NoTime]

ArticleRemoved ==
    [title |-> Removed, description |-> <<"A", "I">>, content |-> Null,
     source |-> Null, url |-> UrlOf(<<"a", ".", "i", "o">>),
     urlToImage |-> Null, publishedAt |-> 3]

ArticleOther ==
    [title |-> <<"s", "a", "i", "d">>, description |-> Null, content |-> Null,
     source |-> Null, url |-> UrlOf(<<"a", ".", "i", "o">>),
     urlToImage |-> Null, publishedAt |-> 1]

ArticleSports ==
    [title |-> <<"A", "I">>, description |-> <<"N", "B", "A">>, content |-> Null,
     source |-> Null, url |-> UrlOf(<<"a", ".", "i", "o">>),
     urlToImage |-> Null, publishedAt |-> 4]

\* what fetchNews may return; the empty batch is also what it returns when
\* the request fails
Batches ==
    {<<>>,
     <<ArticleOther, ArticleRemoved, ArticleSports>>,
     <<ArticleNew>>,
     <<ArticleUndated, ArticleRemoved, ArticleNew, ArticleOther>>}

PipelineRules ==
    [allow_keywords |-> <<<<"a", "i">>>>,
     exclude_domains |-> <<<<"x", ".", "i", "o">>>>,
     exclude_keywords |-> <<<<"n", "b", "a">>>>]

\* a field of the parsed configuration: an array of terms, a value that is
\* not an array, or no such field
ArrayField(terms) == [kind |-> "array", value |-> terms]
OtherField == [kind |-> "other", value |-> <<>>]
AbsentField == [kind |-> "absent", value |-> <<>>]

JsonConfig(allow, domains, keywords) ==
    [kind |-> "json", allow_keywords |-> allow, exclude_domains |-> domains,
     exclude_keywords |-> keywords]

\* the file is missing or unreadable (readFileSync throws), is not JSON
\* (JSON.parse throws) or is the JSON text null (parsed.allow_keywords throws)
BrokenConfig(kind) ==
    [kind |-> kind, allow_keywords |-> AbsentField,
     exclude_domains |-> AbsentField, exclude_keywords |-> AbsentField]

GoodConfig ==
    JsonConfig(ArrayField(PipelineRules.allow_keywords),
               ArrayField(PipelineRules.exclude_domains),
               ArrayField(PipelineRules.exclude_keywords))

\* config/filter_rules.json as the run may find it
Configs ==
    {GoodConfig,
     BrokenConfig("missing"), BrokenConfig("unparseable"), BrokenConfig("null"),
     JsonConfig(AbsentField, ArrayField(PipelineRules.exclude_domains),
                ArrayField(PipelineRules.exclude_keywords)),
     JsonConfig(OtherField, OtherField,
                ArrayField(PipelineRules.exclude_keywords))}

EmptyRules ==
    [allow_keywords |-> <<>>, exclude_domains |-> <<>>, exclude_keywords |-> <<>>]

\* the loader falling back to the rules of the repository
loadFilterRulesDefaults(config) ==
    IF config.kind # "json" THEN PipelineRules
    ELSE [f \in {"allow_keywords", "exclude_domains", "exclude_keywords"} |->
            IF config[f].kind = "array" THEN config[f].value
            ELSE PipelineRules[f]]

\* lines 32-49: the catch branch returns the empty rules; a field that is
\* not an array is replaced by []
loadFilterRules(config) ==
    IF config.kind # "json" THEN EmptyRules
    ELSE [f \in {"allow_keywords", "exclude_domains", "exclude_keywords"} |->
            IF config[f].kind = "array" THEN config[f].value ELSE <<>>]

PipelineReplies ==
    {[kind |-> "error", title_ja |-> Null, summary_ja |-> Null],
     [kind |-> "json", title_ja |-> JaTitle, summary_ja |-> JaSummary]}

EmptyDir == [d \in {} |-> AbsentFile]

PipelineInit ==
    /\ now = StartHour
    /\ latest = AbsentFile
    /\ archives = EmptyDir
    /\ pConfig \in Configs
    /\ pRules = loadFilterRules(pConfig)
    /\ pPc = "idle"
    /\ pRun = 0
    /\ pArticles = <<>>
    /\ pTop = <<>>
    /\ pProcessed = <<>>
    /\ pIndex = 0
    /\ pCalls = <<>>
    /\ pOutstanding = 0
    /\ preLatest = AbsentFile
    /\ preArchives = EmptyDir
    /\ history = <<>>

\* an hour passes, between runs or while the run waits for the news API,
\* for the model or for the pause to end
Tick ==
    /\ pPc \in {"idle", "done", "failed", "crashed", "fetch", "await", "delay"}
    /\ now < StartHour + MaxHours
    /\ now' = now + 1
    /\ UNCHANGED <<fileVars, runVars>>

\* the scheduler starts node scripts/fetch_news.js: processNews() calls
\* fetchNews() and awaits it
StartRun ==
    /\ pPc \in {"idle", "done", "failed", "crashed"}
    /\ pRun < MaxRuns
    /\ pRun' = pRun + 1
    /\ pPc' = "fetch"
    /\ pArticles' = <<>>
    /\ pTop' = <<>>
    /\ pProcessed' = <<>>
    /\ pIndex' = 0
    /\ pCalls' = <<>>
    /\ pOutstanding' = 0
    /\ preLatest' = latest
    /\ preArchives' = archives
    /\ UNCHANGED <<now, fileVars, pConfig, pRules, history>>

\* fetchNews() settles; lines 183-207 run without a pause
FetchReturns ==
    /\ pPc = "fetch"
    /\ \E articles \in Batches :
          LET topArticles == TopArticles(articles, pRules)
          IN  /\ pArticles' = articles
              /\ pTop' = topArticles
              /\ pPc' = AfterSelect(articles, topArticles)
              /\ pIndex' = 1
    /\ pProcessed' = <<>>
    /\ UNCHANGED <<now, fileVars, pConfig, pRules, pRun, pCalls, pOutstanding,
                   preLatest, preArchives, history>>

\* the loop going on without awaiting the call
AfterIssueNoAwait == "summarize"

\* line 210: the loop awaits summarizeArticle(article)
AfterIssue == "await"

\* line 210: summarizeArticle(article) sends the prompt to the model
CallModel ==
    /\ pPc = "summarize"
    /\ pCalls' = Append(pCalls, pIndex)
    /\ pOutstanding' = pOutstanding + 1
    /\ pPc' = AfterIssue
    /\ UNCHANGED <<now, fileVars, pConfig, pRules, pRun, pArticles, pTop, pProcessed,
                   pIndex, preLatest, preArchives, history>>

\* lines 210-222: the call settles, the processed article is pushed and the
\* pause of one second begins
ModelSettles ==
    /\ pPc = "await"
    /\ \E reply \in PipelineReplies :
          pProcessed' = Append(pProcessed,
              ProcessedArticle(pTop[pIndex], summarizeArticle(pTop[pIndex], reply)))
    /\ pOutstanding' = pOutstanding - 1
    /\ pPc' = "delay"
    /\ UNCHANGED <<now, fileVars, pConfig, pRules, pRun, pArticles, pTop, pIndex, pCalls,
                   preLatest, preArchives, history>>

\* line 222: the pause ends; the loop goes to the next article or ends
DelayEnds ==
    /\ pPc = "delay"
    /\ pIndex' = pIndex + 1
    /\ pPc' = IF pIndex < Len(pTop) THEN "summarize" ELSE "persist"
    /\ UNCHANGED <<now, fileVars, pConfig, pRules, pRun, pArticles, pTop, pProcessed,
                   pCalls, pOutstanding, preLatest, preArchives, history>>

\* line 239: writeFileSync of latest.json returns
WriteLatest ==
    /\ pPc = "persist"
    /\ latest' = JsonFile(OutputData(now, pProcessed))
    /\ pPc' = "archive"
    /\ UNCHANGED <<now, archives, pConfig, pRules, pRun, pArticles, pTop, pProcessed,
                   pIndex, pCalls, pOutstanding, preLatest, preArchives, history>>

\* line 239: writeFileSync of latest.json throws, the file not opened (left
\* as it was) or opened, truncated and not written in full; nothing catches
\* it and the run ends
WriteLatestFails ==
    /\ pPc = "persist"
    /\ latest' \in {latest, PartialFile}
    /\ pPc' = "failed"
    /\ UNCHANGED <<now, archives, pConfig, pRules, pRun, pArticles, pTop, pProcessed,
                   pIndex, pCalls, pOutstanding, preLatest, preArchives, history>>

\* line 243: writeFileSync of the archive returns, and the run is over
WriteArchive ==
    /\ pPc = "archive"
    /\ archives' = ArchivesAfterWrite(archives, JstDate(now),
                                      OutputData(now, pProcessed))
    /\ history' = Append(history, [run |-> pRun, date |-> JstDate(now),
                                   data |-> OutputData(now, pProcessed)])
    /\ pPc' = "done"
    /\ UNCHANGED <<now, latest, pConfig, pRules, pRun, pArticles, pTop, pProcessed,
                   pIndex, pCalls, pOutstanding, preLatest, preArchives>>

\* line 243: writeFileSync of the archive throws, as that of latest.json may
WriteArchiveFails ==
    /\ pPc = "archive"
    /\ archives' \in {archives, ArchivesAfterPartialWrite(archives, JstDate(now))}
    /\ pPc' = "failed"
    /\ UNCHANGED <<now, latest, pConfig, pRules, pRun, pArticles, pTop, pProcessed,
                   pIndex, pCalls, pOutstanding, preLatest, preArchives, history>>

\* the process ends before processNews has returned: it is killed, or an
\* exception escapes (nothing in processNews catches one); what it held in
\* memory is gone
Crash ==
    /\ pPc \in {"fetch", "summarize", "await", "delay", "persist", "archive"}
    /\ pPc' = "crashed"
    /\ pArticles' = <<>>
    /\ pTop' = <<>>
    /\ pProcessed' = <<>>
    /\ pIndex' = 0
    /\ pCalls' = <<>>
    /\ pOutstanding' = 0
    /\ UNCHANGED <<now, fileVars, pConfig, pRules, pRun, preLatest, preArchives,
                   history>>

(***************************************************************************)
(* The snapshot of one run as a function of what fetchNews returned and of *)
(* how the model replied: lines 189-223 of processNews, for batches longer *)
(* than the twenty articles a snapshot holds.                              *)
(***************************************************************************)
MaxBatch == 22

\* lines 207-223: the loop pushes one processed article for each article of
\* topArticles, in order, replies[k] being how the model answered for the
\* k-th
ProcessAll(topArticles, replies) ==
    [k \in 1..Len(topArticles) |->
        ProcessedArticle(topArticles[k],
                         summarizeArticle(topArticles[k], replies[k]))]

VARIABLES
    nBatch,    \* what fetchNews returned
    nReplies,  \* how the model replies to the k-th call
    nDone,     \* TRUE when processNews has returned
    nWritten,  \* TRUE when it wrote the snapshot
    nArticles  \* the articles of the snapshot written

snapshotVars == <<nBatch, nReplies, nDone, nWritten, nArticles>>

\* a text that tells the i-th article of a batch from the others
IndexText(i) == [j \in 1..i |-> "i"]

\* the i-th article of a batch: on AI and dated i, or dated as the article
\* before it, or undated, or removed, or on something else
BatchArticle(i, shape) ==
    LET kind == IF shape = "mixed" THEN i % 4 ELSE 0
    IN  [title |-> IF kind = 1 THEN Removed
                   ELSE IF kind = 2 THEN <<"s", "a", "i", "d">>
                   ELSE <<"A", "I">>,
         description |-> Null, content |-> Null, source |-> Null,
         url |-> UrlOf(<<"a", ".", "i", "o">>),
         urlToImage |-> IndexText(i),
         publishedAt |-> IF kind = 3 THEN NoTime
                         ELSE IF shape = "paired" THEN (i + 1) \div 2
                         ELSE i]

BatchShapes == {"dated", "paired", "mixed"}

SnapshotBatches ==
    {[i \in 1..n |-> BatchArticle(i, shape)] :
        n \in 0..MaxBatch, shape \in BatchShapes}

\* the model answers every call, or none, or every other one
ReplyPatterns ==
    {[k \in 1..MaxBatch |->
        IF ok[1 + (k % 2)]
        THEN [kind |-> "json", title_ja |-> JaTitle, summary_ja |-> JaSummary]
        ELSE [kind |-> "error", title_ja |-> Null, summary_ja |-> Null]] :
     ok \in [1..2 -> BOOLEAN]}

SnapshotInit ==
    /\ nBatch \in SnapshotBatches
    /\ nReplies \in ReplyPatterns
    /\ nDone = FALSE
    /\ nWritten = FALSE
    /\ nArticles = <<>>

SnapshotIdle ==
    /\ nBatch = <<>>
    /\ nReplies = <<>>
    /\ nDone = FALSE
    /\ nWritten = FALSE
    /\ nArticles = <<>>

\* processNews from line 183 to its return, the writes succeeding
RunOnce ==
    /\ ~nDone
    /\ nDone' = TRUE
    /\ LET topArticles == TopArticles(nBatch, PipelineRules)
       IN  IF AfterSelect(nBatch, topArticles) = "done"
           THEN nWritten' = FALSE /\ nArticles' = <<>>
           ELSE nWritten' = TRUE /\ nArticles' = ProcessAll(topArticles, nReplies)
    /\ UNCHANGED <<nBatch, nReplies>>

(***************************************************************************)
(* The service worker: the deployed version v1 (CACHE_NAME 'ai-news-v1')   *)
(* and the new version v2 (CACHE_NAME 'ai-news-v2') taking over from it.   *)
(*                                                                         *)
(* Cache storage is the sequence, in order of creation, of the caches of   *)
(* the origin, each a record [name, id, entries]: id tells the cache       *)
(* objects apart (a cache deleted while a handler holds it is no longer    *)
(* in the storage, and a cache opened later under the same name is another *)
(* object), entries maps each request to the response stored for it or to  *)
(* NoResponse.  A response is a record [status, type, body]; the body is   *)
(* the number of the network reply that carried it.                        *)
(***************************************************************************)
\* the fetch events of the page while v2 is installed and activated
MaxInFlight == 1

\* the fetch events of the page once v2 is in control
MaxRequests == 2

CacheNameV1 == "ai-news-v1"
CacheNameV2 == "ai-news-v2"
OtherCacheName == "other-app"
CacheNames == {CacheNameV1, CacheNameV2, OtherCacheName}

\* ASSETS, two of them standing for the five
Assets == {"./index.html", "./app.js"}

\* the request whose url includes '/data/latest.json'
DataRequest == "data/latest.json"

\* a request that is neither the data endpoint nor one of ASSETS
UnlistedRequest == "./icon.png"

\* the requests that take the else branch of the fetch handler
StaticRequests == Assets \cup {UnlistedRequest}

Requests == Assets \cup {DataRequest, UnlistedRequest}

NoResponse == [status |-> 0, type |-> "none", body |-> 0]

EmptyEntries == [r \in Requests |-> NoResponse]

\* CACHE_NAME of a worker version
CACHE_NAME(worker) == IF worker = "v1" THEN CacheNameV1 ELSE CacheNameV2

VARIABLES
    caches,      \* the cache storage
    nextCacheId, \* the id of the next cache created
    netSeq,      \* the number of network replies so far
    oldWorker,   \* TRUE when v1 is deployed
    sw,          \* the state of the v2 worker
    actKeys,     \* cacheNames: what caches.keys() gave the activate handler
    actPending,  \* the names whose caches.delete has not run yet
    actBefore,   \* the cache storage as caches.keys() found it
    reqs         \* the fetch events, by number

swVars == <<caches, nextCacheId, netSeq, oldWorker, sw, actKeys, actPending,
            actBefore, reqs>>

NamesOf(storage) == {storage[i].name : i \in DOMAIN storage}

\* the cache of that name; the name must be in the storage
CacheNamed(storage, name) ==
    storage[CHOOSE i \in DOMAIN storage : storage[i].name = name]

\* caches.open(name): the storage afterwards; the cache is created when
\* there is none of that name
StorageAfterOpen(storage, name, id) ==
    IF name \in NamesOf(storage) THEN storage
    ELSE Append(storage, [name |-> name, id |-> id, entries |-> EmptyEntries])

\* the id of the next cache created, after caches.open(name)
NextIdAfterOpen(storage, name, id) ==
    IF name \in NamesOf(storage) THEN id ELSE id + 1

\* caches.delete(name): the storage afterwards
StorageAfterDelete(storage, name) ==
    LET Other(cache) == cache.name # name
    IN  SelectSeq(storage, Other)

\* cache.put(request, response) on the cache object id: the storage
\* afterwards; a cache object deleted from the storage is not in it
StorageAfterPut(storage, id, request, response) ==
    [i \in DOMAIN storage |->
        IF storage[i].id = id
        THEN [storage[i] EXCEPT !.entries[request] = response]
        ELSE storage[i]]

\* caches.match finding nothing
StorageMatchNothing(storage, request) == NoResponse

\* caches.match(request): the first match in the order of creation, or
\* NoResponse (undefined)
StorageMatch(storage, request) ==
    LET hits == {i \in DOMAIN storage : storage[i].entries[request] # NoResponse}
    IN  IF hits = {} THEN NoResponse
        ELSE storage[CHOOSE i \in hits : \A j \in hits : i <= j].entries[request]

\* the activate handler deleting every cache it finds
NamesToDeleteAll(cacheNames) == cacheNames

\* lines 22-26 of the activate handler: the names for which caches.delete
\* is called
NamesToDelete(cacheNames) ==
    {cacheName \in cacheNames : cacheName # CacheNameV2}

\* every response is stored, whatever its status and type
CacheableAlways(worker, response) == TRUE

\* line 40 of the v2 fetch handler negated: the response is stored; v1
\* stores every response
Cacheable(worker, response) ==
    \/ worker = "v1"
    \/ response.status = 200 /\ response.type = "basic"

\* a fetch event: outcome tells where the response given to respondWith came
\* from ("network", "fallback" for the catch branch, "none" before), write
\* what became of the cache write ("none", "pending", "stored", "failed",
\* "abandoned")
NoRequest ==
    [worker |-> "none", request |-> DataRequest, pc |-> "unused",
     delivered |-> NoResponse, clone |-> NoResponse, handle |-> 0,
     outcome |-> "none", write |-> "none"]

\* the then callback returning the stored copy of the response instead of
\* the response
FetchThenReturnsClone(worker, response) ==
    [delivered |-> IF Cacheable(worker, response) THEN response ELSE NoResponse,
     clone |-> IF Cacheable(worker, response) THEN response ELSE NoResponse,
     write |-> IF Cacheable(worker, response) THEN "pending" ELSE "none",
     pc |-> IF Cacheable(worker, response) THEN "open" ELSE "done"]

\* the then callback returning the response only once it is stored
FetchThenAwaitsWrite(worker, response) ==
    [delivered |-> IF Cacheable(worker, response) THEN NoResponse ELSE response,
     clone |-> IF Cacheable(worker, response) THEN response ELSE NoResponse,
     write |-> IF Cacheable(worker, response) THEN "pending" ELSE "none",
     pc |-> IF Cacheable(worker, response) THEN "open" ELSE "done"]

\* the then callback of the data branch (v1 lines 77-83, v2 lines 38-48):
\* the response is returned to respondWith; when it is cacheable its clone
\* is handed to caches.open(...).then(put), which the callback does not
\* wait for
FetchThen(worker, response) ==
    [delivered |-> response,
     clone |-> IF Cacheable(worker, response) THEN response ELSE NoResponse,
     write |-> IF Cacheable(worker, response) THEN "pending" ELSE "none",
     pc |-> IF Cacheable(worker, response) THEN "open" ELSE "done"]

\* the responses the network gives: a good one, one of another status and
\* one of another type
NetworkResponses(body) ==
    {[status |-> 200, type |-> "basic", body |-> body],
     [status |-> 404, type |-> "basic", body |-> body],
     [status |-> 200, type |-> "cors", body |-> body]}

\* the entries of a cache as earlier visits left them
SeedEntries ==
    {EmptyEntries,
     [r \in Requests |-> IF r \in Assets
                         THEN [status |-> 200, type |-> "basic", body |-> 0]
                         ELSE NoResponse],
     [r \in Requests |-> IF r \in Assets \cup {DataRequest}
                         THEN [status |-> 200, type |-> "basic", body |-> 0]
                         ELSE NoResponse]}

\* the storages in which the caches named in names each hold some seed
\* entries, the cache of name number i having the id i
NameOrder == <<CacheNameV1, OtherCacheName, CacheNameV2>>

SeedStorages(names) ==
    LET present == SelectSeq(NameOrder, LAMBDA n : n \in names)
    IN  {[i \in DOMAIN present |->
            [name |-> present[i], id |-> i, entries |-> e[i]]] :
         e \in [DOMAIN present -> SeedEntries]}

\* no fetch event yet, of count to come
NoRequests(count) == [n \in 1..count |-> NoRequest]

SwCommonInit ==
    /\ nextCacheId = Len(NameOrder) + 1
    /\ netSeq = 0
    /\ actKeys = {}
    /\ actPending = {}
    /\ actBefore = <<>>

\* v2 has just been registered on an origin where v1 may be deployed and
\* another application may keep a cache
SwInit ==
    /\ SwCommonInit
    /\ reqs = NoRequests(MaxInFlight)
    /\ oldWorker \in BOOLEAN
    /\ sw = "installing"
    /\ \E names \in SUBSET {CacheNameV1, OtherCacheName} :
          /\ (CacheNameV1 \in names) = oldWorker
          /\ caches \in SeedStorages(names)
          \* the install handler of v1 stored the assets
          /\ \A i \in DOMAIN caches : \A a \in Assets :
                (caches[i].entries[a] # NoResponse) =
                    (caches[i].name = CacheNameV1)

\* v2 is installed and about to be activated, on any cache storage
ActivateInit ==
    /\ SwCommonInit
    /\ reqs = NoRequests(MaxInFlight)
    /\ oldWorker \in BOOLEAN
    /\ sw = "installed"
    /\ \E names \in SUBSET CacheNames : caches \in SeedStorages(names)

SwIdle ==
    /\ SwCommonInit
    /\ reqs = <<>>
    /\ oldWorker = FALSE
    /\ sw = "installing"
    /\ caches = <<>>

\* v2 is installed, activated and in control of the page; its cache holds
\* the assets and may hold data/latest.json from an earlier visit; a cache of
\* another application may exist
FetchInit ==
    /\ SwCommonInit
    /\ reqs = NoRequests(MaxRequests)
    /\ oldWorker = FALSE
    /\ sw = "activated"
    /\ \E names \in {{CacheNameV2}, {CacheNameV2, OtherCacheName}} :
          /\ caches \in SeedStorages(names)
          /\ \A i \in DOMAIN caches : \A a \in Assets :
                (caches[i].entries[a] # NoResponse) =
                    (caches[i].name = CacheNameV2)

\* the storage after cache.addAll(ASSETS) on the cache of that name stored
\* a response for every asset
StorageAfterAddAll(storage, name, body) ==
    [i \in DOMAIN storage |->
        IF storage[i].name = name
        THEN [storage[i] EXCEPT !.entries =
                [r \in Requests |->
                    IF r \in Assets
                    THEN [status |-> 200, type |-> "basic", body |-> body]
                    ELSE storage[i].entries[r]]]
        ELSE storage[i]]

\* install, lines 11-15: caches.open(CACHE_NAME), then cache.addAll(ASSETS)
\* fetched and stored every asset; the promise given to waitUntil is
\* fulfilled
Install ==
    /\ sw = "installing"
    /\ netSeq' = netSeq + 1
    /\ caches' = StorageAfterAddAll(
                    StorageAfterOpen(caches, CacheNameV2, nextCacheId),
                    CacheNameV2, netSeq')
    /\ nextCacheId' = NextIdAfterOpen(caches, CacheNameV2, nextCacheId)
    /\ sw' = "installed"
    /\ UNCHANGED <<oldWorker, actKeys, actPending, actBefore, reqs>>

\* cache.addAll(ASSETS) keeping the assets it had fetched when another
\* failed
StorageAfterAddAllPartly(storage, name, body) ==
    [i \in DOMAIN storage |->
        IF storage[i].name = name
        THEN [storage[i] EXCEPT !.entries["./index.html"] =
                [status |-> 200, type |-> "basic", body |-> body]]
        ELSE storage[i]]

\* the storage after cache.addAll(ASSETS) was rejected: the requests are
\* stored all together once they are all fetched, so nothing is stored
StorageAfterAddAllFails(storage, name, body) == storage

\* install, lines 11-15: caches.open(CACHE_NAME), then an asset could not be
\* fetched or stored; addAll stores nothing, the promise is rejected and
\* the worker is discarded
InstallFails ==
    /\ sw = "installing"
    /\ caches' = StorageAfterAddAllFails(
                    StorageAfterOpen(caches, CacheNameV2, nextCacheId),
                    CacheNameV2, netSeq + 1)
    /\ nextCacheId' = NextIdAfterOpen(caches, CacheNameV2, nextCacheId)
    /\ sw' = "redundant"
    /\ UNCHANGED <<netSeq, oldWorker, actKeys, actPending, actBefore, reqs>>

\* activate, lines 20-27: self.skipWaiting() lets the installed worker be
\* activated at once; caches.keys() is fulfilled and caches.delete is
\* called for the names to delete
ActivateKeys ==
    /\ sw = "installed"
    /\ sw' = "activating"
    /\ actKeys' = NamesOf(caches)
    /\ actPending' = NamesToDelete(NamesOf(caches))
    /\ actBefore' = caches
    /\ UNCHANGED <<caches, nextCacheId, netSeq, oldWorker, reqs>>

\* activate, line 24: one caches.delete(cacheName) runs
ActivateDelete ==
    /\ sw = "activating"
    /\ \E name \in actPending :
          /\ caches' = StorageAfterDelete(caches, name)
          /\ actPending' = actPending \ {name}
    /\ UNCHANGED <<nextCacheId, netSeq, oldWorker, sw, actKeys, actBefore, reqs>>

\* activate, line 21: Promise.all is fulfilled, and with it the promise
\* given to waitUntil: the worker is activated
ActivateDone ==
    /\ sw = "activating"
    /\ actPending = {}
    /\ sw' = "activated"
    /\ UNCHANGED <<caches, nextCacheId, netSeq, oldWorker, actKeys, actPending,
                   actBefore, reqs>>

\* the worker in control of the page: v1 until v2 is activated
ActiveWorker ==
    IF sw = "activated" THEN "v2"
    ELSE IF oldWorker /\ sw \in {"installing", "installed", "redundant"}
         THEN "v1"
         ELSE "none"

\* a fetch event for data/latest.json reaches the worker in control:
\* fetch(event.request) is sent (v1 line 76, v2 line 37)
FetchEvent ==
    /\ ActiveWorker # "none"
    /\ \E n \in DOMAIN reqs :
          /\ reqs[n].pc = "unused"
          /\ \A m \in 1..(n - 1) : reqs[m].pc # "unused"
          /\ reqs' = [reqs EXCEPT ![n] =
                [NoRequest EXCEPT !.worker = ActiveWorker, !.pc = "network"]]
    /\ UNCHANGED <<caches, nextCacheId, netSeq, oldWorker, sw, actKeys,
                   actPending, actBefore>>

\* the network replies (v1 lines 77-83, v2 lines 38-48): the response is
\* returned to the page, and its clone is to be stored when it is cacheable
NetworkReplies ==
    /\ \E n \in DOMAIN reqs :
          /\ reqs[n].pc = "network"
          /\ \E response \in NetworkResponses(netSeq + 1) :
                LET then == FetchThen(reqs[n].worker, response)
                IN  reqs' = [reqs EXCEPT ![n] =
                        [@ EXCEPT !.delivered = then.delivered,
                                  !.clone = then.clone,
                                  !.write = then.write,
                                  !.outcome = "network",
                                  !.pc = then.pc]]
    /\ netSeq' = netSeq + 1
    /\ UNCHANGED <<caches, nextCacheId, oldWorker, sw, actKeys, actPending,
                   actBefore>>

\* the network fails (v1 line 84, v2 line 49): caches.match(event.request)
NetworkFails ==
    /\ \E n \in DOMAIN reqs :
          /\ reqs[n].pc = "network"
          /\ reqs' = [reqs EXCEPT ![n] =
                [@ EXCEPT !.delivered = StorageMatch(caches, reqs[n].request),
                          !.outcome = "fallback",
                          !.pc = "done"]]
    /\ UNCHANGED <<caches, nextCacheId, netSeq, oldWorker, sw, actKeys,
                   actPending, actBefore>>

\* caches.open(CACHE_NAME) of the handler is fulfilled (v1 line 79, v2 line 44)
CacheOpen ==
    /\ \E n \in DOMAIN reqs :
          /\ reqs[n].pc = "open"
          /\ LET name == CACHE_NAME(reqs[n].worker)
                 after == StorageAfterOpen(caches, name, nextCacheId)
             IN  /\ caches' = after
                 /\ nextCacheId' = NextIdAfterOpen(caches, name, nextCacheId)
                 /\ reqs' = [reqs EXCEPT ![n] =
                        [@ EXCEPT !.handle = CacheNamed(after, name).id,
                                  !.pc = "put"]]
    /\ UNCHANGED <<netSeq, oldWorker, sw, actKeys, actPending, actBefore>>

\* cache.put(event.request, clonedResponse) runs (v1 line 80, v2 line 45)
CachePut ==
    /\ \E n \in DOMAIN reqs :
          /\ reqs[n].pc = "put"
          /\ caches' = StorageAfterPut(caches, reqs[n].handle, reqs[n].request,
                                       reqs[n].clone)
          /\ reqs' = [reqs EXCEPT ![n] =
                [@ EXCEPT !.clone = NoResponse, !.handle = 0,
                          !.write = "stored", !.pc = "done"]]
    /\ UNCHANGED <<nextCacheId, netSeq, oldWorker, sw, actKeys, actPending,
                   actBefore>>

\* cache.put is rejected (the quota is exceeded, say): nothing is stored and
\* nothing handles the rejection (v1 line 80, v2 line 45)
CachePutFails ==
    /\ \E n \in DOMAIN reqs :
          /\ reqs[n].pc = "put"
          /\ reqs' = [reqs EXCEPT ![n] =
                [@ EXCEPT !.clone = NoResponse, !.handle = 0,
                          !.write = "failed", !.pc = "done"]]
    /\ UNCHANGED <<caches, nextCacheId, netSeq, oldWorker, sw, actKeys,
                   actPending, actBefore>>

\* the worker is stopped before the cache write, which no waitUntil keeps
\* alive, has run
WriteAbandoned ==
    /\ \E n \in DOMAIN reqs :
          /\ reqs[n].pc \in {"open", "put"}
          /\ reqs' = [reqs EXCEPT ![n] =
                [@ EXCEPT !.clone = NoResponse, !.handle = 0,
                          !.write = "abandoned", !.pc = "done"]]
    /\ UNCHANGED <<caches, nextCacheId, netSeq, oldWorker, sw, actKeys,
                   actPending, actBefore>>

\* the then callback of the static branch going to the network whatever
\* the cache holds
StaticThenNetworkFirst(response) ==
    [delivered |-> NoResponse, outcome |-> "none", pc |-> "static-network"]

\* the then callback of the static branch (v1 line 90, v2 line 55),
\* response || fetch(event.request): the match is returned; on a miss
\* fetch(event.request) is sent
StaticThen(response) ==
    IF response # NoResponse
    THEN [delivered |-> response, outcome |-> "cache", pc |-> "done"]
    ELSE [delivered |-> NoResponse, outcome |-> "none", pc |-> "static-network"]

\* a fetch event for a request other than data/latest.json reaches the
\* worker in control: caches.match(event.request) is called (v1 line 89,
\* v2 line 54)
StaticEvent ==
    /\ ActiveWorker # "none"
    /\ \E n \in DOMAIN reqs, request \in StaticRequests :
          /\ reqs[n].pc = "unused"
          /\ \A m \in 1..(n - 1) : reqs[m].pc # "unused"
          /\ reqs' = [reqs EXCEPT ![n] =
                [NoRequest EXCEPT !.worker = ActiveWorker,
                                  !.request = request,
                                  !.pc = "match"]]
    /\ UNCHANGED <<caches, nextCacheId, netSeq, oldWorker, sw, actKeys,
                   actPending, actBefore>>

\* caches.match is fulfilled and the then callback runs (v1 line 90, v2
\* line 55)
StaticMatch ==
    /\ \E n \in DOMAIN reqs :
          /\ reqs[n].pc = "match"
          /\ LET then == StaticThen(StorageMatch(caches, reqs[n].request))
             IN  reqs' = [reqs EXCEPT ![n] =
                    [@ EXCEPT !.delivered = then.delivered,
                              !.outcome = then.outcome,
                              !.pc = then.pc]]
    /\ UNCHANGED <<caches, nextCacheId, netSeq, oldWorker, sw, actKeys,
                   actPending, actBefore>>

\* the network replies to the fetch of the static branch: the response is
\* returned to the page and stored nowhere (v1 line 90, v2 line 55)
StaticNetworkReplies ==
    /\ \E n \in DOMAIN reqs :
          /\ reqs[n].pc = "static-network"
          /\ \E response \in NetworkResponses(netSeq + 1) :
                reqs' = [reqs EXCEPT ![n] =
                    [@ EXCEPT !.delivered = response,
                              !.outcome = "network",
                              !.pc = "done"]]
    /\ netSeq' = netSeq + 1
    /\ UNCHANGED <<caches, nextCacheId, oldWorker, sw, actKeys, actPending,
                   actBefore>>

\* the fetch of the static branch fails: the promise given to respondWith
\* is rejected and the page gets a network error (v1 line 90, v2 line 55)
StaticNetworkFails ==
    /\ \E n \in DOMAIN reqs :
          /\ reqs[n].pc = "static-network"
          /\ reqs' = [reqs EXCEPT ![n] =
                [@ EXCEPT !.outcome = "error", !.pc = "done"]]
    /\ UNCHANGED <<caches, nextCacheId, netSeq, oldWorker, sw, actKeys,
                   actPending, actBefore>>

MatcherIdle ==
    /\ mTerm = <<>>
    /\ mText = <<>>
    /\ mTested = FALSE
    /\ mResult = FALSE

ClassifierIdle ==
    /\ cRules = [allow_keywords |-> <<>>, exclude_domains |-> <<>>,
                 exclude_keywords |-> <<>>]
    /\ cArticle = NoArticle
    /\ cTested = FALSE
    /\ cResult = FALSE

PipelineIdle ==
    /\ now = StartHour
    /\ latest = AbsentFile
    /\ archives = EmptyDir
    /\ pConfig = GoodConfig
    /\ pRules = PipelineRules
    /\ pPc = "idle"
    /\ pRun = 0
    /\ pArticles = <<>>
    /\ pTop = <<>>
    /\ pProcessed = <<>>
    /\ pIndex = 0
    /\ pCalls = <<>>
    /\ pOutstanding = 0
    /\ preLatest = AbsentFile
    /\ preArchives = EmptyDir
    /\ history = <<>>

vars == <<matcherVars, classifierVars, summarizerVars, pipelineVars, swVars,
          snapshotVars>>

\* the variables of the other parts of the model
notPipelineVars == <<matcherVars, classifierVars, summarizerVars, swVars,
                     snapshotVars>>

PipelineNext ==
    \/ Tick /\ UNCHANGED notPipelineVars
    \/ StartRun /\ UNCHANGED notPipelineVars
    \/ FetchReturns /\ UNCHANGED notPipelineVars
    \/ CallModel /\ UNCHANGED notPipelineVars
    \/ ModelSettles /\ UNCHANGED notPipelineVars
    \/ DelayEnds /\ UNCHANGED notPipelineVars
    \/ WriteLatest /\ UNCHANGED notPipelineVars
    \/ WriteLatestFails /\ UNCHANGED notPipelineVars
    \/ WriteArchive /\ UNCHANGED notPipelineVars
    \/ WriteArchiveFails /\ UNCHANGED notPipelineVars
    \/ Crash /\ UNCHANGED notPipelineVars

PipelineSpecInit ==
    PipelineInit /\ MatcherIdle /\ ClassifierIdle /\ SummarizerIdle /\ SwIdle
    /\ SnapshotIdle

\* the variables of the other parts of the model
notSwVars == <<matcherVars, classifierVars, summarizerVars, pipelineVars,
               snapshotVars>>

SwNext ==
    \/ Install /\ UNCHANGED notSwVars
    \/ InstallFails /\ UNCHANGED notSwVars
    \/ ActivateKeys /\ UNCHANGED notSwVars
    \/ ActivateDelete /\ UNCHANGED notSwVars
    \/ ActivateDone /\ UNCHANGED notSwVars
    \/ FetchEvent /\ UNCHANGED notSwVars
    \/ NetworkReplies /\ UNCHANGED notSwVars
    \/ NetworkFails /\ UNCHANGED notSwVars
    \/ CacheOpen /\ UNCHANGED notSwVars
    \/ CachePut /\ UNCHANGED notSwVars
    \/ CachePutFails /\ UNCHANGED notSwVars
    \/ WriteAbandoned /\ UNCHANGED notSwVars

SwSpecInit ==
    SwInit /\ MatcherIdle /\ ClassifierIdle /\ SummarizerIdle /\ PipelineIdle
    /\ SnapshotIdle

\* the service worker with the fetch events of the page
SwSpec == SwSpecInit /\ [][SwNext]_vars

StaticNext ==
    \/ Install /\ UNCHANGED notSwVars
    \/ InstallFails /\ UNCHANGED notSwVars
    \/ ActivateKeys /\ UNCHANGED notSwVars
    \/ ActivateDelete /\ UNCHANGED notSwVars
    \/ ActivateDone /\ UNCHANGED notSwVars
    \/ StaticEvent /\ UNCHANGED notSwVars
    \/ StaticMatch /\ UNCHANGED notSwVars
    \/ StaticNetworkReplies /\ UNCHANGED notSwVars
    \/ StaticNetworkFails /\ UNCHANGED notSwVars

StaticSpecInit ==
    SwInit /\ MatcherIdle /\ ClassifierIdle /\ SummarizerIdle /\ PipelineIdle
    /\ SnapshotIdle

\* the service worker with the fetch events of the page for requests other
\* than data/latest.json
StaticSpec == StaticSpecInit /\ [][StaticNext]_vars

FetchNext ==
    \/ FetchEvent /\ UNCHANGED notSwVars
    \/ NetworkReplies /\ UNCHANGED notSwVars
    \/ NetworkFails /\ UNCHANGED notSwVars
    \/ CacheOpen /\ UNCHANGED notSwVars
    \/ CachePut /\ UNCHANGED notSwVars
    \/ CachePutFails /\ UNCHANGED notSwVars
    \/ WriteAbandoned /\ UNCHANGED notSwVars

FetchSpecInit ==
    FetchInit /\ MatcherIdle /\ ClassifierIdle /\ SummarizerIdle /\ PipelineIdle
    /\ SnapshotIdle

\* the fetch handler of v2 in control of the page, for data/latest.json
FetchSpec == FetchSpecInit /\ [][FetchNext]_vars

ActivateNext ==
    \/ ActivateKeys /\ UNCHANGED notSwVars
    \/ ActivateDelete /\ UNCHANGED notSwVars
    \/ ActivateDone /\ UNCHANGED notSwVars

ActivateSpecInit ==
    ActivateInit /\ MatcherIdle /\ ClassifierIdle /\ SummarizerIdle /\ PipelineIdle
    /\ SnapshotIdle

\* the activate handler on its own, on a cache storage nothing else touches
ActivateSpec == ActivateSpecInit /\ [][ActivateNext]_vars

PipelineSpec == PipelineSpecInit /\ [][PipelineNext]_vars

SnapshotNext == RunOnce /\ UNCHANGED <<matcherVars, classifierVars, summarizerVars,
                                       pipelineVars, swVars>>

SnapshotSpecInit ==
    SnapshotInit /\ MatcherIdle /\ ClassifierIdle /\ SummarizerIdle
    /\ PipelineIdle /\ SwIdle

\* one run of processNews on batches of up to MaxBatch articles
SnapshotSpec == SnapshotSpecInit /\ [][SnapshotNext]_vars

MatcherNext == TestTerm /\ UNCHANGED <<classifierVars, summarizerVars, pipelineVars, swVars,
                                   snapshotVars>>

MatcherSpecInit ==
    MatcherInit /\ ClassifierIdle /\ SummarizerIdle /\ PipelineIdle /\ SwIdle
    /\ SnapshotIdle

MatcherSpec == MatcherSpecInit /\ [][MatcherNext]_vars

ClassifierNext == Classify /\ UNCHANGED <<matcherVars, summarizerVars, pipelineVars, swVars,
                                   snapshotVars>>

ClassifierSpecInit ==
    ClassifierInit /\ MatcherIdle /\ SummarizerIdle /\ PipelineIdle /\ SwIdle
    /\ SnapshotIdle

ClassifierSpec == ClassifierSpecInit /\ [][ClassifierNext]_vars

SummarizerNext == Summarize /\ UNCHANGED <<matcherVars, classifierVars, pipelineVars, swVars,
                                   snapshotVars>>

SummarizerSpecInit ==
    SummarizerInit /\ MatcherIdle /\ ClassifierIdle /\ PipelineIdle /\ SwIdle
    /\ SnapshotIdle

SummarizerSpec == SummarizerSpecInit /\ [][SummarizerNext]_vars

(***************************************************************************)
(* The claims on the service worker                                        *)
(***************************************************************************)
\* C1: when the activate handler of the worker whose cache name is
\* 'ai-news-v2' has finished its deletions on a cache storage nothing else
\* touches, whatever caches existed beforehand, no cache of another name
\* exists any more, and the cache named 'ai-news-v2', if it existed, is
\* still the same cache with the same entries.
C1_ActivatePurges ==
    sw = "activated" =>
        /\ NamesOf(caches) \subseteq {CacheNameV2}
        /\ CacheNameV2 \in NamesOf(actBefore) =>
              /\ CacheNameV2 \in NamesOf(caches)
              /\ CacheNamed(caches, CacheNameV2) =
                    CacheNamed(actBefore, CacheNameV2)

\* the storage held the cache of v1, the cache of another application and
\* a filled cache of v2, and after the activation holds the last only
C1_Witness ==
    /\ sw = "activated"
    /\ NamesOf(actBefore) = CacheNames
    /\ CacheNamed(actBefore, CacheNameV2).entries[DataRequest] # NoResponse
    /\ Len(caches) = 1
    /\ caches[1] = CacheNamed(actBefore, CacheNameV2)

\* C2: in every state after the activation of v2 has completed, at most one
\* cache version exists, the current one, also when fetches of
\* data/latest.json begun under v1 write to the cache after the purge.
C2_AsStated ==
    sw = "activated" => CacheNameV1 \notin NamesOf(caches)


\* the copies of the request that the caches of the storage hold
CachedCopies(storage, request) ==
    {storage[i].entries[request] : i \in DOMAIN storage} \ {NoResponse}

\* C11: when the network fetch of a request for data/latest.json fails, the
\* response delivered is the cached copy of the request if there is one,
\* and no response if there is none; the failure is not passed on when a
\* copy exists.
C11_FallbackToCache ==
    [][\A n \in DOMAIN reqs :
        (reqs[n].pc = "network" /\ reqs'[n].outcome = "fallback") =>
            /\ reqs'[n].pc = "done"
            /\ IF CachedCopies(caches, reqs[n].request) = {}
               THEN reqs'[n].delivered = NoResponse
               ELSE reqs'[n].delivered \in CachedCopies(caches, reqs[n].request)
      ]_vars

\* a fetch failed and the page got the copy that an earlier fetch stored
C11_Witness ==
    \E n \in DOMAIN reqs :
        /\ reqs[n].outcome = "fallback"
        /\ reqs[n].delivered # NoResponse
        /\ reqs[n].delivered.body >= 1

\* C12: when the network fetch of a request for data/latest.json returns a
\* response, the response delivered is that response, also when a cached
\* copy exists; a cached copy is delivered only when the fetch fails.
C12_NetworkFirst ==
    [][\A n \in DOMAIN reqs :
        (reqs[n].pc = "network" /\ reqs'[n].outcome = "network") =>
            /\ reqs'[n].delivered \in NetworkResponses(netSeq')
            /\ reqs'[n].delivered \notin CachedCopies(caches, reqs[n].request)
      ]_vars

\* the page got a response of the network that is not cacheable while the
\* cache holds a copy
C12_Witness ==
    \E n \in DOMAIN reqs :
        /\ reqs[n].outcome = "network"
        /\ reqs[n].delivered.status = 404
        /\ CachedCopies(caches, reqs[n].request) # {}

\* C13: for a request that does not target data/latest.json, when a cache
\* holds an entry for it, that entry is returned and no network fetch is
\* issued; a network fetch is issued on a miss only, and no step of such a
\* request adds, replaces or removes a cache entry.
C13_CacheFirst ==
    [][\A n \in DOMAIN reqs :
        /\ (reqs[n].pc = "match" /\ reqs'[n].pc # "match") =>
              IF CachedCopies(caches, reqs[n].request) # {}
              THEN /\ reqs'[n].pc = "done"
                   /\ reqs'[n].outcome = "cache"
                   /\ reqs'[n].delivered \in CachedCopies(caches, reqs[n].request)
                   /\ netSeq' = netSeq
              ELSE reqs'[n].pc = "static-network"
        /\ (reqs'[n].request # DataRequest /\ reqs'[n] # reqs[n]) =>
              caches' = caches
      ]_vars

\* under v2 an asset was answered from the cache, the install being the
\* only fetch there was
C13_Witness ==
    /\ sw = "activated"
    /\ netSeq = 1
    /\ \E n \in DOMAIN reqs :
          /\ reqs[n].pc = "done"
          /\ reqs[n].worker = "v2"
          /\ reqs[n].request \in Assets
          /\ reqs[n].outcome = "cache"
          /\ reqs[n].delivered = CacheNamed(caches, CacheNameV2).entries[reqs[n].request]

\* C18: when the network fetch of a request for data/latest.json succeeds,
\* the response is delivered while the cache write of its clone is still
\* pending, and the response delivered stays the same whether the write
\* succeeds, fails or never completes.
C18_DeliveryIndependentOfWrite ==
    /\ [](\A n \in DOMAIN reqs :
            reqs[n].outcome = "network" => reqs[n].delivered # NoResponse)
    /\ [][\A n \in DOMAIN reqs :
            reqs[n].outcome = "network" =>
                reqs'[n].delivered = reqs[n].delivered]_vars

\* one response is delivered with its write pending, another after its
\* write failed
C18_Witness ==
    \E n, m \in DOMAIN reqs :
        /\ reqs[n].write = "pending"
        /\ reqs[n].delivered # NoResponse
        /\ reqs[m].write = "failed"
        /\ reqs[m].delivered # NoResponse

\* C19: when an asset of ASSETS cannot be fetched or stored during install,
\* the installation fails, that install stores none of the assets in the
\* cache of v2, and v2 is never activated, so it never deletes the caches
\* of older versions.
C19_InstallAllOrNothing ==
    /\ [](sw = "redundant" =>
            /\ CacheNameV2 \in NamesOf(caches)
            /\ \A a \in Assets :
                  CacheNamed(caches, CacheNameV2).entries[a] = NoResponse
            /\ actKeys = {} /\ actPending = {} /\ actBefore = <<>>
            /\ oldWorker => CacheNameV1 \in NamesOf(caches))
    /\ [][sw = "redundant" => sw' = "redundant"]_vars

\* the install of v2 has failed where v1 is deployed, and v1 has since
\* answered a fetch
C19_Witness ==
    /\ sw = "redundant"
    /\ oldWorker
    /\ NamesOf(caches) = {CacheNameV1, CacheNameV2}
    /\ \E n \in DOMAIN reqs : reqs[n].worker = "v1" /\ reqs[n].pc = "done"

\* C20: when several fetches of data/latest.json got cacheable responses and
\* all their cache writes have completed, the entry of the request in the
\* cache of v2 holds the response fetched last.
C20_AsStated ==
    (\A n \in DOMAIN reqs :
        /\ reqs[n].outcome = "network"
        /\ reqs[n].write = "stored") =>
            CacheNamed(caches, CacheNameV2).entries[DataRequest].body = netSeq

\* a response of status 200 and type 'basic'
ValidResponse(response) ==
    response.status = 200 /\ response.type = "basic"

\* the entries of data/latest.json in the caches named 'ai-news-v2'
CurrentDataEntries ==
    {caches[i].entries[DataRequest] :
        i \in {j \in DOMAIN caches : caches[j].name = CacheNameV2}}
    \ {NoResponse}

\* C22: the entry of data/latest.json in the cache of the current version,
\* when there is one, is a response of status 200 and type 'basic' that the
\* network gave; when the network gives the handler of v2 a response of
\* another status or type, that response is delivered to the page, no cache
\* write is started for it and the storage is left as it is.
C22_OnlyValidStored ==
    /\ [](\A entry \in CurrentDataEntries :
            /\ ValidResponse(entry)
            /\ entry.body \in 0..netSeq)
    /\ [][\A n \in DOMAIN reqs :
            (/\ reqs[n].pc = "network"
             /\ reqs[n].worker = "v2"
             /\ reqs'[n].outcome = "network") =>
                /\ reqs'[n].delivered \in NetworkResponses(netSeq')
                /\ ~ValidResponse(reqs'[n].delivered) =>
                      /\ reqs'[n].pc = "done"
                      /\ reqs'[n].write = "none"
                      /\ reqs'[n].clone = NoResponse
                      /\ caches' = caches
       ]_vars

\* a first fetch got a response of status 200 and type 'basic', which was
\* stored; a second one then got a response of another status or type,
\* which was delivered, and the cache still holds the first response
C22_Witness ==
    /\ Len(reqs) >= 2
    /\ reqs[1].outcome = "network"
    /\ reqs[1].write = "stored"
    /\ reqs[2].outcome = "network"
    /\ reqs[2].pc = "done"
    /\ reqs[2].delivered.body = 2
    /\ ~ValidResponse(reqs[2].delivered)
    /\ reqs[2].write = "none"
    /\ CurrentDataEntries = {reqs[1].delivered}
    /\ reqs[1].delivered.body = 1

(***************************************************************************)
(* Statements about the snapshot of a run.                                 *)
(***************************************************************************)
\* the positions in the batch of the candidates that are not '[Removed]'
\* and pass the classification
Passing ==
    {i \in DOMAIN nBatch :
        /\ nBatch[i].title # Removed
        /\ isAiRelatedArticle(nBatch[i], PipelineRules)}

\* the position in the batch of the article behind the k-th article of the
\* snapshot
SourceOf(k) == Len(nArticles[k].image_url)

SmallerOf(a, b) == IF a <= b THEN a ELSE b

\* C15: the articles of the snapshot written are the first min(20, n) of
\* the n candidates that are not '[Removed]' and pass the classification,
\* by descending publish time (a missing time counting as 0), one processed
\* article for each, in that order, also when the model fails for it, and
\* never more than n; with n = 0 nothing is written.
C15_SnapshotArticles ==
    nDone =>
        /\ nWritten = (Passing # {})
        /\ Len(nArticles) = SmallerOf(20, Cardinality(Passing))
        /\ \A k \in DOMAIN nArticles :
              LET article == nBatch[SourceOf(k)]
              IN  /\ SourceOf(k) \in Passing
                  /\ nArticles[k].title = article.title
                  /\ nArticles[k].original_url = article.url
                  /\ nArticles[k].published_at = article.publishedAt
                  /\ nArticles[k].source = article.source
                  /\ nReplies[k].kind = "error" =>
                        /\ nArticles[k].title_ja = article.title
                        /\ nArticles[k].summary_ja = article.title
                  /\ nReplies[k].kind = "json" =>
                        /\ nArticles[k].title_ja = nReplies[k].title_ja
                        /\ nArticles[k].summary_ja = nReplies[k].summary_ja
        /\ \A k, l \in DOMAIN nArticles :
              k < l =>
                  /\ SourceOf(k) # SourceOf(l)
                  /\ PublishTime(nBatch[SourceOf(k)]) >=
                        PublishTime(nBatch[SourceOf(l)])
        /\ \A i \in Passing \ {SourceOf(k) : k \in DOMAIN nArticles} :
              \A k \in DOMAIN nArticles :
                  PublishTime(nBatch[i]) <= PublishTime(nBatch[SourceOf(k)])

\* of 22 candidates that all pass, the 20 newest are in the snapshot, the
\* model having failed for every other one
C15_Witness ==
    /\ nDone
    /\ Len(nBatch) = 22
    /\ Cardinality(Passing) = 22
    /\ Len(nArticles) = 20
    /\ nReplies[1].kind = "error"
    /\ nReplies[2].kind = "json"
    /\ SourceOf(1) = 22
    /\ SourceOf(20) = 3

(***************************************************************************)
(* Statements about the pipeline.                                          *)
(***************************************************************************)
FilesUntouched == latest = preLatest /\ archives = preArchives

\* C3 as stated: when a persistence step of a run fails, the latest snapshot
\* and every archive file have the content they had before the run started.
C3_AsStated == pPc = "failed" => FilesUntouched

\* C4: a run whose fetch returns no candidate, or of whose candidates none
\* survives the '[Removed]' drop, the classification and the truncation,
\* ends without writing and without calling the model.
C4_NoWriteWhenEmpty ==
    (/\ pIndex >= 1  \* fetchNews has returned
     /\ \A k \in DOMAIN pArticles :
           \/ pArticles[k].title = Removed
           \/ ~isAiRelatedArticle(pArticles[k], pRules)) =>
        /\ pPc = "done"
        /\ FilesUntouched
        /\ pCalls = <<>>
        /\ pOutstanding = 0

\* a second run fetched candidates of which none was selected, and ended
\* with the files of the first run in place
C4_Witness ==
    /\ pPc = "done"
    /\ pRun = 2
    /\ pArticles = <<ArticleOther, ArticleRemoved, ArticleSports>>
    /\ latest.kind = "json"
    /\ latest = preLatest
    /\ pCalls = <<>>

\* C14: during the loop of a run at most one call of the model is
\* outstanding, the calls are issued in the order of topArticles, and the
\* call for the next article is issued only when the call before it has
\* settled, its processed article is pushed and the pause after it is over.
C14_OneCallAtATime ==
    /\ [](/\ pOutstanding <= 1
          /\ pCalls = [i \in 1..Len(pCalls) |-> i])
    /\ [][(pRun' = pRun /\ Len(pCalls') > Len(pCalls)) =>
            /\ pOutstanding = 0
            /\ Len(pProcessed) = Len(pCalls)
            /\ pIndex = Len(pCalls) + 1
            /\ pCalls' = Append(pCalls, pIndex)
            /\ pTop' = pTop]_vars

\* the call for the second of two selected articles is outstanding
C14_Witness ==
    /\ Len(pTop) = 2
    /\ pCalls = <<1, 2>>
    /\ pOutstanding = 1
    /\ Len(pProcessed) = 1

\* C16: when config/filter_rules.json is missing, unreadable or not JSON, or
\* a field of it is absent or not an array, loadFilterRules returns empty
\* lists for the fields concerned and the others as they are; with an empty
\* allow list no article is selected, the model is not called and neither
\* file is written.
C16_FailClosed ==
    /\ pConfig.kind # "json" => pRules = EmptyRules
    /\ pConfig.kind = "json" =>
          \A f \in DOMAIN pRules :
              pRules[f] = IF pConfig[f].kind = "array" THEN pConfig[f].value
                          ELSE <<>>
    /\ pRules.allow_keywords = <<>> =>
          /\ pTop = <<>>
          /\ pCalls = <<>>
          /\ latest = AbsentFile
          /\ archives = EmptyDir
          /\ pPc \in {"idle", "fetch", "done", "crashed"}

\* the allow list of the file is not an array, and the second run has ended
\* having fetched articles on AI
C16_Witness ==
    /\ pConfig.kind = "json"
    /\ pConfig.allow_keywords = OtherField
    /\ pRules.exclude_keywords # <<>>
    /\ pRun = 2
    /\ pPc = "done"
    /\ pArticles = <<ArticleUndated, ArticleRemoved, ArticleNew, ArticleOther>>
    /\ latest = AbsentFile

\* the run is in its loop and has not summarized every selected article
LoopUnfinished ==
    /\ pPc \in {"summarize", "await", "delay"}
    /\ Len(pProcessed) < Len(pTop)

\* C17 as stated: in every state of a run in which not all selected articles
\* are summarized, latest.json and the archive files are as the run found
\* them, and a run that crashes before it has completed leaves them so.
C17_AsStated ==
    /\ LoopUnfinished => FilesUntouched
    /\ pPc = "crashed" => FilesUntouched

\* the first half of C17, which holds: the files are not written before the
\* loop has ended
C17_LoopLeavesFiles == LoopUnfinished => FilesUntouched

\* the dates for which an archive file exists
ArchiveDates == DOMAIN archives

\* C10: when two successful runs have completed on the same calendar date,
\* one archive file exists for that date and it holds the snapshot of the
\* second run only.
C10_SameDateOverwrites ==
    (/\ pPc = "done"
     /\ Len(history) >= 2
     /\ history[Len(history)].run = pRun
     /\ history[Len(history)].date = history[Len(history) - 1].date) =>
        LET second == history[Len(history)]
        IN  /\ Cardinality({d \in ArchiveDates : d = second.date}) = 1
            /\ archives[second.date] = JsonFile(second.data)
            /\ second.data.articles = pProcessed

\* two runs saved different snapshots on the same date
C10_Witness ==
    /\ pPc = "done"
    /\ Len(history) = 2
    /\ history[1].date = history[2].date
    /\ history[1].data.articles # history[2].data.articles
    /\ Len(history[1].data.articles) = 2
    /\ archives[history[2].date] = JsonFile(history[2].data)

\* the run in progress or just over is the one that wrote last
LastRunSaved ==
    /\ history # <<>>
    /\ history[Len(history)].run = pRun

\* C23: when a run has completed with both files written, latest.json holds
\* what the archive file of the run's date holds.
C23_LatestEqualsArchive ==
    (pPc = "done" /\ LastRunSaved) =>
        LET today == history[Len(history)].date
        IN  /\ today \in ArchiveDates
            /\ latest.kind = "json"
            /\ latest = archives[today]

\* a second run has completed later on the day of the first with other
\* articles, and both files hold its snapshot
C23_Witness ==
    /\ pPc = "done"
    /\ LastRunSaved
    /\ pRun = 2
    /\ Len(history) = 2
    /\ history[1].date = history[2].date
    /\ history[1].data.updated_at < history[2].data.updated_at
    /\ latest = JsonFile(history[2].data)
    /\ archives[history[2].date] = latest

\* C24: no step of a run changes or removes an archive file of a date other
\* than the current date, so the archives of earlier days stay as they are
\* through every sequence of runs.
C24_OtherDatesUnchanged ==
    [][\A d \in ArchiveDates :
        d # JstDate(now) =>
            /\ d \in DOMAIN archives'
            /\ archives'[d] = archives[d]
      ]_vars

\* a run completed on the day after the first run's, and the archive of the
\* first day still holds the snapshot of the first run
C24_Witness ==
    /\ pPc = "done"
    /\ LastRunSaved
    /\ Len(history) = 2
    /\ history[1].date < history[2].date
    /\ history[2].date = JstDate(now)
    /\ ArchiveDates = {history[1].date, history[2].date}
    /\ archives[history[1].date] = JsonFile(history[1].data)
    /\ archives[history[2].date] = JsonFile(history[2].data)

(***************************************************************************)
(* Statements about the summarizer.                                        *)
(***************************************************************************)
\* the text the fallback summary is taken from: the description, else the
\* title, else the fixed message
FallbackSource(article) ==
    IF ~Falsy(article.description) THEN article.description
    ELSE IF ~Falsy(article.title) THEN article.title
    ELSE SummaryUnavailable

IsPrefix(p, t) == Len(p) <= Len(t) /\ SubSeq(t, 1, Len(p)) = p

\* C9: when the language-model call fails (transport error, non-JSON reply),
\* summarize returns, without throwing, title_ja equal to the article's title and a summary_ja
\* of at most 200 characters taken from the description, else the title,
\* else the fixed message: the whole text, or its first 197 characters and
\* an ellipsis.
C9_FallbackOnFailure ==
    (sTested /\ sReply.kind \in {"error", "notjson"}) =>
        LET source == FallbackSource(sArticle)
            summary == sResult.summary_ja
        IN  /\ ~sResult.threw
            /\ sResult.title_ja = sArticle.title
            /\ Len(summary) <= SummaryMax
            /\ \/ summary = source
               \/ /\ Len(source) > SummaryMax
                  /\ IsPrefix(SubSeq(summary, 1, Len(summary) - 3), source)
                  /\ SubSeq(summary, Len(summary) - 2, Len(summary)) = Ellipsis

\* the call failed on an article with a description of 201 characters, and
\* the summary returned has 200
C9_Witness ==
    /\ sTested
    /\ sReply.kind = "error"
    /\ Len(sArticle.description) = SummaryMax + 1
    /\ Len(sResult.summary_ja) = SummaryMax
    /\ sArticle.title # Null

(***************************************************************************)
(* Statements about the classifier.                                        *)
(***************************************************************************)
\* some keyword of the list matches the text
AnyKeywordMatches(keywords, text) ==
    \E k \in DOMAIN keywords : PatternTest(buildTermPattern(keywords[k]), text)

\* the hostname of the article's url, when the url parses
HasHostname(article) == article.url.kind = "valid"
Hostname(article) == toLowerCase(article.url.host)

\* the hostname equals an entry of exclude_domains or ends with "." + entry
HostListed(article, rules) ==
    /\ HasHostname(article)
    /\ \E k \in DOMAIN rules.exclude_domains :
          \/ Hostname(article) = rules.exclude_domains[k]
          \/ endsWith(Hostname(article), <<".">> \o rules.exclude_domains[k])

\* C5: an article whose combined text matches at least one allow keyword and
\* at least one exclude keyword is rejected, whichever allow terms matched.
C5_ExclusionWins ==
    (/\ cTested
     /\ AnyKeywordMatches(cRules.allow_keywords, CombinedText(cArticle))
     /\ AnyKeywordMatches(cRules.exclude_keywords, CombinedText(cArticle)))
        => ~cResult

\* an article on a host that is not excluded, matching the allow terms "ai"
\* and "gpt4" and the exclude term "nba", was classified
C5_Witness ==
    /\ cTested
    /\ ~cResult
    /\ ~isExcludedDomain(cArticle.url, cRules)
    /\ cRules.allow_keywords = <<<<"A", "I">>, <<"g", "p", "t", "4">>>>
    /\ cArticle.title = <<"G", "P", "T", "4">>
    /\ cArticle.description = <<"A", "I">>
    /\ cArticle.source = <<"N", "B", "A">>
    /\ AnyKeywordMatches(cRules.exclude_keywords, CombinedText(cArticle))

\* C6 as stated: an article whose URL hostname equals an entry of
\* exclude_domains, or ends with "." + entry, is rejected whatever its text
\* matches.
C6_AsStated ==
    (cTested /\ HostListed(cArticle, cRules)) => ~cResult

\* C6 amended: the same for an article whose URL hostname is not empty.
C6_ExcludedDomainRejected ==
    (cTested /\ HostListed(cArticle, cRules) /\ Hostname(cArticle) # <<>>)
        => ~cResult

\* an article on a subdomain of an excluded domain, matching an allow keyword
\* and no exclude keyword, was classified and rejected
C6_Witness ==
    /\ cTested
    /\ ~cResult
    /\ cArticle.url = [kind |-> "valid", host |-> <<"A", ".", "x", ".", "i", "o">>]
    /\ cRules.exclude_domains = <<<<"x", ".", "i", "o">>>>
    /\ AnyKeywordMatches(cRules.allow_keywords, CombinedText(cArticle))
    /\ ~AnyKeywordMatches(cRules.exclude_keywords, CombinedText(cArticle))

\* C7: an article is accepted exactly when its host is not excluded, at least
\* one allow keyword matches its combined text (title, description, content,
\* source name, missing fields empty) and no exclude keyword matches it; so
\* an article matching no allow keyword is rejected.
C7_AcceptedExactlyWhen ==
    cTested =>
        (cResult <=>
            /\ ~isExcludedDomain(cArticle.url, cRules)
            /\ AnyKeywordMatches(cRules.allow_keywords, CombinedText(cArticle))
            /\ ~AnyKeywordMatches(cRules.exclude_keywords, CombinedText(cArticle)))

\* an article whose only allow match is in its source name was accepted
C7_Witness ==
    /\ cTested
    /\ cResult
    /\ cArticle.title = Null
    /\ cArticle.description = <<"s", "a", "i", "d">>
    /\ cArticle.content = Null
    /\ cArticle.source = <<"A", "I">>
    /\ cRules.allow_keywords = <<<<"a", "i">>>>

\* a host name or an entry without its trailing dot, in lower case
WithoutTrailingDot(s) ==
    IF s # <<>> /\ s[Len(s)] = "." THEN SubSeq(s, 1, Len(s) - 1) ELSE s

CanonicalHost(s) == WithoutTrailingDot(toLowerCase(s))

\* the hostname equals an entry of exclude_domains, or a subdomain of it, up
\* to letter case and a trailing dot on either of them
HostListedUpToCaseAndDot(article, rules) ==
    /\ HasHostname(article)
    /\ CanonicalHost(article.url.host) # <<>>
    /\ \E k \in DOMAIN rules.exclude_domains :
          LET entry == CanonicalHost(rules.exclude_domains[k])
              host == CanonicalHost(article.url.host)
          IN  /\ entry # <<>>
              /\ \/ host = entry
                 \/ endsWith(host, <<".">> \o entry)

\* C21 as stated: an article whose hostname differs from an entry of
\* exclude_domains, or from a subdomain of it, only by letter case or by a
\* trailing dot on the hostname or on the entry is rejected; an article whose
\* URL is missing or malformed has the empty hostname and is not rejected by
\* the domain rule.
C21_AsStated ==
    cTested =>
        /\ HostListedUpToCaseAndDot(cArticle, cRules) => ~cResult
        /\ ~HasHostname(cArticle) =>
              /\ extractHost(cArticle.url) = <<>>
              /\ ~isExcludedDomain(cArticle.url, cRules)

\* the part of C21 on letter case and on urls that do not parse: an article
\* whose lower-cased hostname equals a lower-cased entry, or ends with "." and
\* the entry, is rejected; without a hostname the domain rule rejects nothing.
C21_CaseAndMissingUrl ==
    cTested =>
        /\ (/\ HasHostname(cArticle)
            /\ Hostname(cArticle) # <<>>
            /\ \E k \in DOMAIN cRules.exclude_domains :
                  LET entry == toLowerCase(cRules.exclude_domains[k])
                  IN  \/ Hostname(cArticle) = entry
                      \/ endsWith(Hostname(cArticle), <<".">> \o entry))
              => ~cResult
        /\ ~HasHostname(cArticle) =>
              /\ extractHost(cArticle.url) = <<>>
              /\ ~isExcludedDomain(cArticle.url, cRules)

(***************************************************************************)
(* Occurrences of a term in a text, for the statements about the matcher.  *)
(***************************************************************************)
\* the positions at which term occurs in text as a case-insensitive substring
Occurrences(term, text) ==
    {p \in 1..(Len(text) - Len(term) + 1) :
        toLowerCase(SubSeq(text, p, p + Len(term) - 1)) = toLowerCase(term)}

\* the occurrence at p touches a word character: it is part of a longer word
InsideLongerWord(term, text, p) ==
    \/ p > 1 /\ IsWordChar(text[p - 1])
    \/ p + Len(term) <= Len(text) /\ IsWordChar(text[p + Len(term)])

OnlyInsideLongerWord(term, text) ==
    /\ Occurrences(term, text) # {}
    /\ \A p \in Occurrences(term, text) : InsideLongerWord(term, text, p)

\* C8 as stated, read on the terms written without surrounding whitespace
\* (for which the term and its trimmed form are the same string): a term of
\* length at most 3 does not match when it occurs only inside a longer word;
\* a term longer than 3 characters matches whenever it occurs as a
\* case-insensitive substring.
C8_AsStated ==
    (mTested /\ mTerm # <<>> /\ trim(mTerm) = mTerm) =>
        /\ (Len(mTerm) <= ShortWordMax /\ OnlyInsideLongerWord(mTerm, mText))
               => ~mResult
        /\ (Len(mTerm) > ShortWordMax /\ Occurrences(mTerm, mText) # {})
               => mResult

\* C8 amended: the word boundary is enforced exactly for the terms whose
\* trimmed form is 1 to 3 ASCII letters or digits: such a term does not match
\* when its trimmed form occurs only inside a longer word; every other term
\* matches whenever it occurs as a case-insensitive substring.
C8_ShortWordBoundary ==
    mTested =>
        /\ (isShortWord(mTerm) /\ OnlyInsideLongerWord(trim(mTerm), mText))
               => ~mResult
        /\ (~isShortWord(mTerm) /\ Occurrences(mTerm, mText) # {})
               => mResult

\* a short word tested against a text that holds it only inside a longer
\* word, with a capital in the term
C8_Witness ==
    /\ mTested
    /\ mTerm = <<"A">>
    /\ mText = <<"+", "a", "a">>
    /\ ~mResult

\* a term longer than 3 characters that is not a short word, found inside a
\* longer word
C8_WitnessLong ==
    /\ mTested
    /\ mTerm = <<"a", " ", " ", "A">>
    /\ mText = <<"a", "a", " ", " ", "a">>
    /\ mResult

=============================================================================
